---- MODULE Spec2Model ----
(***************************************************************************)
(* A model of the per-process telemetry collector of                       *)
(* lib/process_data/src/lib.rs (ProcessData).                              *)
(*                                                                         *)
(* The module holds one state machine per component of the collector:      *)
(*   SpecScan    the DRM fdinfo scan of one process                        *)
(*               (other_gpu_usage_stats / npu_usage_stats)                 *)
(*   SpecNvidia  the two NVIDIA caches, refreshed and looked up by two     *)
(*               threads                                                   *)
(*   SpecLookup  the same, with one thread and every answer of the devices *)
(*   Spec        a collection pass (all_process_data)                      *)
(*   SpecSnapshot the snapshot of one process (try_from_path): the fields  *)
(*               read from stat, statm and status                          *)
(*   SpecCgroup  the cgroup classifier (sanitize_cgroup)                   *)
(*   SpecMerge   the GPU map of one snapshot (gpu_usage_stats)             *)
(*   SpecParse   the parsers of one fdinfo text (read_gpu_fdinfo,          *)
(*               read_npu_fdinfo)                                          *)
(* Every machine leaves the variables of the others unchanged.             *)
(***************************************************************************)
EXTENDS Integers, Sequences, FiniteSets, TLC

VARIABLES
    \* ---- fdinfo scan of one process
    scan,        \* which scan runs: "gpu" (other_gpu_usage_stats) or "npu"
    scanpc,      \* "scanning", "done" (Ok(return_map)) or "failed" (Err)
    fd_file,     \* fd number -> file object, for the entries enumerated so far
    seen_fds,    \* the scan's seen_fds
    return_map,  \* the scan's return_map: PCI slot -> stats
    parsed,      \* history: the (slot, stats) pairs read_*_fdinfo returned Ok for
    last,        \* history: what happened to the entry enumerated last
    \* ---- the NVIDIA caches and the threads that use them
    NVIDIA_PROCESSES_STATS,  \* PCI slot -> utilization samples
    NVIDIA_PROCESS_INFOS,    \* PCI slot -> memory records
    stats_lock,  \* the RwLock of NVIDIA_PROCESSES_STATS: "free" or its writer
    infos_lock,  \* the RwLock of NVIDIA_PROCESS_INFOS: "free" or its writer
    stats_gen,   \* history: how many times NVIDIA_PROCESSES_STATS was refilled
    infos_gen,   \* history: how many times NVIDIA_PROCESS_INFOS was refilled
    stats_src,   \* history: the call whose refresh filled NVIDIA_PROCESSES_STATS
    infos_src,   \* history: the call whose refresh filled NVIDIA_PROCESS_INFOS
    calls,       \* history: how many calls of the public functions have begun
    pc,          \* thread -> where it is
    tl,          \* thread -> its locals
    lk,          \* history: the nvidia_gpu_stats lookup that returned last
    \* ---- a collection pass and the snapshot of one process
    NUM_CPUS,     \* the logical CPU count, fixed when first used
    USERS_CACHE,  \* uid -> user name, read once from the user database
    passpc,       \* all_process_data: "idle", "refresh", "glob" or "returned"
    listed,       \* history: what glob listed so far and how try_from_path ended
    process_data, \* the process_data vector of the pass
    tried,        \* history: the input and the result of the last try_from_path
    \* ---- the cgroup classifier
    cgroup_file,  \* the content of /proc/<pid>/cgroup
    cgroup,       \* the cgroup of the ProcessData: Some(name) or None
    cgpc,         \* "idle", "read" (the file is read) or "done" (it is classified)
    \* ---- the GPU map of one snapshot
    gpu_pid,      \* the pid gpu_usage_stats is called for
    gpu_usage,    \* the map gpu_usage_stats returned
    gpupc,        \* "idle", "call" (gpu_usage_stats is called) or "done"
    \* ---- the parsers of one fdinfo text
    content,      \* the text of the fdinfo entry, as the keys the regexes capture
    parse_out,    \* what the parser returned, and which parser it was
    parsepc       \* "idle", "read" (the parser is called) or "done"

scanVars == <<scan, scanpc, fd_file, seen_fds, return_map, parsed, last>>

nvVars == <<NVIDIA_PROCESSES_STATS, NVIDIA_PROCESS_INFOS, stats_lock, infos_lock,
            stats_gen, infos_gen, stats_src, infos_src, calls, pc, tl, lk>>

passVars == <<NUM_CPUS, USERS_CACHE, passpc, listed, process_data, tried>>

cgVars == <<cgroup_file, cgroup, cgpc>>

gpuVars == <<gpu_pid, gpu_usage, gpupc>>

parseVars == <<content, parse_out, parsepc>>

vars == <<scanVars, nvVars, passVars, cgVars, gpuVars, parseVars>>

-----------------------------------------------------------------------------
(* Bounds of the model *)

\* directory entries enumerated by one fdinfo scan
MaxEntries == 3

\* calls of all_process_data, update_nvidia_stats and try_from_path, over all threads
MaxCalls == 3

\* processes one all_process_data pass finds under /proc
MaxProcs == 1

\* entries the glob of one all_process_data pass lists
MaxListed == 3

-----------------------------------------------------------------------------
(* Result<T, E> and Option<T> *)

Ok(v) == [tag |-> "Ok", val |-> v]
Err == [tag |-> "Err", val |-> 0]
IsOk(r) == r.tag = "Ok"

\* Result::unwrap_or
UnwrapOr(r, default) == IF IsOk(r) THEN r.val ELSE default

\* a counter key that is absent from a text, or whose number does not parse
Absent == 0 - 1

\* Option<u64>::unwrap_or_default
UnwrapOrDefault(v) == IF v = Absent THEN 0 ELSE v

\* Option::or_else
OrElse(v, w) == IF v = Absent THEN w ELSE v

MaxOf(S) == CHOOSE m \in S : \A x \in S : x <= m

\* BTreeMap::new() and HashMap::new()
EmptyMap == [s \in {} |-> 0]

-----------------------------------------------------------------------------
(* The DRM fdinfo scanner *)

GPU_DRIVER_NAMES == {"amdgpu", "i915"}
NPU_DRIVER_NAMES == {"amdxdna_accel_driver"}

SlotA == "0000:03:00.0"
SlotB == "0000:00:02.0"
\* PciSlot::default()
DefaultSlot == "0000:00:00.0"
NoSlot == "none"
NoDriver == "none"

\* fd numbers a process may have open; 0..2 are the std streams
FdNums == {2, 3, 4, 5}

\* open file descriptions of the process: two fds with the same file object are
\* what kcmp(KCMP_FILE) calls equal. File 3 is not a DRM character device.
Files == {1, 2, 3}
FileIsDrm(f) == f # 3

\* The fdinfo texts an entry may hold, as the keys the regexes capture
\* (Absent: no such key, or a number that does not parse).
FdinfoContents == <<
    [driver |-> "amdgpu", pdev |-> SlotA, gfx |-> 100, render |-> Absent,
     compute |-> Absent, enc |-> 5, video |-> Absent, dec |-> 7,
     vram |-> 1, gtt |-> 1, npu |-> Absent, total |-> Absent],
    [driver |-> "amdgpu", pdev |-> SlotA, gfx |-> 150, render |-> Absent,
     compute |-> 20, enc |-> 3, video |-> Absent, dec |-> 2,
     vram |-> 4, gtt |-> Absent, npu |-> Absent, total |-> Absent],
    [driver |-> "i915", pdev |-> SlotB, gfx |-> Absent, render |-> 30,
     compute |-> Absent, enc |-> Absent, video |-> 40, dec |-> Absent,
     vram |-> Absent, gtt |-> Absent, npu |-> Absent, total |-> Absent],
    [driver |-> "amdxdna_accel_driver", pdev |-> SlotA, gfx |-> Absent,
     render |-> Absent, compute |-> Absent, enc |-> Absent, video |-> Absent,
     dec |-> Absent, vram |-> Absent, gtt |-> Absent, npu |-> 50, total |-> 2],
    [driver |-> "amdxdna_accel_driver", pdev |-> SlotA, gfx |-> Absent,
     render |-> Absent, compute |-> Absent, enc |-> Absent, video |-> Absent,
     dec |-> Absent, vram |-> Absent, gtt |-> Absent, npu |-> 70, total |-> 1],
    [driver |-> "amdgpu", pdev |-> NoSlot, gfx |-> 900, render |-> Absent,
     compute |-> Absent, enc |-> 900, video |-> Absent, dec |-> 900,
     vram |-> 900, gtt |-> Absent, npu |-> Absent, total |-> Absent],
    [driver |-> NoDriver, pdev |-> NoSlot, gfx |-> Absent, render |-> Absent,
     compute |-> Absent, enc |-> Absent, video |-> Absent, dec |-> Absent,
     vram |-> Absent, gtt |-> Absent, npu |-> Absent, total |-> Absent]
>>

\* kcmp(pid, pid, KCMP_FILE, fd1, fd2) of the kernel: 0 when both fds refer to the
\* same file object, otherwise 1 or 2 by an ordering of the two objects
Kcmp(f1, f2) == IF f1 = f2 THEN 0 ELSE IF f1 < f2 THEN 1 ELSE 2

\* KcmpSaysSame with the comparison inverted
KcmpSaysSameInverted(r) == UnwrapOr(r, 0) # 0

\* the closure of seen_fds.iter().any(..): one comparison against a seen fd
KcmpSaysSame(r) == UnwrapOr(r, 0) = 0

\* not_unique: some fd seen before is the same file in the eyes of the comparison
NotUnique(kcmp, seen) == \E seen_fd \in seen : KcmpSaysSame(kcmp[seen_fd])

\* drm_fdinfo_plausible without the check of the fd entry's device
drm_fdinfo_plausible_any_device(fd_num, env, seen) ==
    IF fd_num <= 2 THEN FALSE
    ELSE IF env.open # "ok" THEN TRUE
    ELSE IF ~env.is_file THEN FALSE
    ELSE IF NotUnique(env.kcmp, seen) THEN FALSE
    ELSE TRUE

\* What the environment answers while one entry is judged:
\*   open     File::open and file.metadata(): "ok", "open_err", "meta_err"
\*   is_file  metadata.is_file()
\*   fd_meta  std::fs::metadata of the fd entry: "err", "drm" (a character device
\*            with major 226) or "other"
\*   kcmp     seen fd -> Result of the kcmp syscall
drm_fdinfo_plausible(fd_num, env, seen) ==
    IF fd_num <= 2 THEN FALSE
    ELSE IF env.open # "ok" THEN TRUE
    ELSE IF ~env.is_file THEN FALSE
    ELSE IF env.fd_meta = "other" THEN FALSE
    ELSE IF NotUnique(env.kcmp, seen) THEN FALSE
    ELSE TRUE

\* u64::saturating_add and saturating_mul: every counter of FdinfoContents is far
\* below u64::MAX, where both are the plain sum and product
SaturatingAdd(a, b) == a + b
SaturatingMul(a, b) == a * b

\* read_gpu_fdinfo with the video engine of Intel counted as dec
read_gpu_fdinfo_video_as_dec(rd, c) ==
    IF ~rd THEN Err
    ELSE IF c.pdev = NoSlot THEN Err
    ELSE IF (IF c.driver = NoDriver THEN "" ELSE c.driver) \notin GPU_DRIVER_NAMES
         THEN Err
    ELSE Ok([slot |-> c.pdev,
             stats |-> [gfx |-> SaturatingAdd(UnwrapOrDefault(OrElse(c.gfx, c.render)),
                                              UnwrapOrDefault(c.compute)),
                        mem |-> SaturatingAdd(SaturatingMul(UnwrapOrDefault(c.vram), 1024),
                                              SaturatingMul(UnwrapOrDefault(c.gtt), 1024)),
                        enc |-> UnwrapOrDefault(c.enc),
                        dec |-> UnwrapOrDefault(OrElse(c.dec, c.video)),
                        nvidia |-> FALSE]])

\* read_gpu_fdinfo of a text c; rd: std::fs::read_to_string is Ok
read_gpu_fdinfo(rd, c) ==
    IF ~rd THEN Err                               \* read_to_string failed
    ELSE IF c.pdev = NoSlot THEN Err              \* can't parse PCI slot ID
    ELSE IF (IF c.driver = NoDriver THEN "" ELSE c.driver) \notin GPU_DRIVER_NAMES
         THEN Err                                 \* this is not a GPU
    ELSE LET gfx == UnwrapOrDefault(OrElse(c.gfx, c.render))
             compute == UnwrapOrDefault(c.compute)
             enc == UnwrapOrDefault(OrElse(c.enc, c.video))
             dec == UnwrapOrDefault(c.dec)
             vram == SaturatingMul(UnwrapOrDefault(c.vram), 1024)
             gtt == SaturatingMul(UnwrapOrDefault(c.gtt), 1024)
         IN Ok([slot |-> c.pdev,
                stats |-> [gfx |-> SaturatingAdd(gfx, compute),
                           mem |-> SaturatingAdd(vram, gtt),
                           enc |-> enc, dec |-> dec, nvidia |-> FALSE]])

read_npu_fdinfo(rd, c) ==
    IF ~rd THEN Err
    ELSE IF c.driver = NoDriver THEN Err          \* unable to find gpu information
    ELSE IF c.driver \notin NPU_DRIVER_NAMES THEN Err   \* this is not an NPU
    ELSE Ok([slot |-> IF c.pdev = NoSlot THEN DefaultSlot ELSE c.pdev,
             stats |-> [usage |-> UnwrapOrDefault(c.npu),
                        mem |-> SaturatingMul(UnwrapOrDefault(c.total), 1024)]])

\* GpuAndModify with the fields added up instead of compared
GpuAndModifySum(existing_value, stats) ==
    [gfx |-> existing_value.gfx + stats.gfx, dec |-> existing_value.dec + stats.dec,
     enc |-> existing_value.enc + stats.enc, mem |-> existing_value.mem + stats.mem,
     nvidia |-> existing_value.nvidia]

\* the and_modify closure of other_gpu_usage_stats
GpuAndModify(existing_value, stats) ==
    [gfx |-> IF stats.gfx > existing_value.gfx THEN stats.gfx ELSE existing_value.gfx,
     dec |-> IF stats.dec > existing_value.dec THEN stats.dec ELSE existing_value.dec,
     enc |-> IF stats.enc > existing_value.enc THEN stats.enc ELSE existing_value.enc,
     mem |-> IF stats.mem > existing_value.mem THEN stats.mem ELSE existing_value.mem,
     nvidia |-> existing_value.nvidia]

\* the and_modify closure of npu_usage_stats
NpuAndModify(existing_value, stats) ==
    [usage |-> IF stats.usage > existing_value.usage THEN stats.usage
               ELSE existing_value.usage,
     mem |-> IF stats.mem > existing_value.mem THEN stats.mem ELSE existing_value.mem]

\* return_map.entry(pci_slot).and_modify(..).or_insert(stats)
EntryAndModifyOrInsert(map, kind, slot, stats) ==
    IF slot \in DOMAIN map
    THEN [map EXCEPT ![slot] = IF kind = "gpu" THEN GpuAndModify(@, stats)
                                ELSE NpuAndModify(@, stats)]
    ELSE map @@ (slot :> stats)

\* MapAfter of a loop that drops what it gathered when an entry is not merged
MapAfterOrCleared(map, kind, plausible, res) ==
    IF plausible /\ IsOk(res)
    THEN EntryAndModifyOrInsert(map, kind, res.val.slot, res.val.stats)
    ELSE EmptyMap

\* return_map after one entry: `continue` when it is not plausible, nothing when
\* its parser returned Err, the entry merged otherwise
MapAfter(map, kind, plausible, res) ==
    IF plausible /\ IsOk(res)
    THEN EntryAndModifyOrInsert(map, kind, res.val.slot, res.val.stats)
    ELSE map

\* seen_fds after one entry
SeenAfter(seen, plausible, fd_num) == IF plausible THEN seen \cup {fd_num} ELSE seen

NoEntry == [fd_num |-> 0, file |-> 0, stage |-> "none", plausible |-> FALSE,
            fd_meta |-> "none", kcmp_err |-> FALSE, kcmp_same |-> FALSE,
            merged |-> FALSE]

IdleScan ==
    /\ scan = "gpu"
    /\ scanpc = "done"
    /\ fd_file = EmptyMap
    /\ seen_fds = {}
    /\ return_map = EmptyMap
    /\ parsed = {}
    /\ last = NoEntry

ScanStart ==
    /\ scan \in {"gpu", "npu"}
    /\ scanpc = "scanning"
    /\ fd_file = EmptyMap
    /\ seen_fds = {}
    /\ return_map = EmptyMap
    /\ parsed = {}
    /\ last = NoEntry

\* The answers the environment may give for an entry; an answer the code never
\* asks for (it returned before) is left at its first value.
EnvAnswers(fd_num, file, seen) ==
    IF fd_num <= 2
    THEN {[open |-> "ok", is_file |-> TRUE, fd_meta |-> "err", kcmp |-> EmptyMap]}
    ELSE {[open |-> o, is_file |-> TRUE, fd_meta |-> "err", kcmp |-> EmptyMap] :
              o \in {"open_err", "meta_err"}}
         \cup {[open |-> "ok", is_file |-> FALSE, fd_meta |-> "err", kcmp |-> EmptyMap]}
         \cup {[open |-> "ok", is_file |-> TRUE, fd_meta |-> "other", kcmp |-> EmptyMap] :
                  x \in IF FileIsDrm(file) THEN {} ELSE {1}}
         \cup {[open |-> "ok", is_file |-> TRUE, fd_meta |-> m,
                kcmp |-> [s \in seen |-> IF s \in errs THEN Err
                                         ELSE Ok(Kcmp(file, fd_file[s]))]] :
                  m \in (IF FileIsDrm(file) THEN {"drm"} ELSE {}) \cup {"err"},
                  errs \in SUBSET seen}

\* how far drm_fdinfo_plausible got before it returned
Stage(fd_num, env) ==
    IF fd_num <= 2 THEN "std"
    ELSE IF env.open # "ok" THEN "open"
    ELSE IF ~env.is_file THEN "is_file"
    ELSE IF env.fd_meta = "other" THEN "major"
    ELSE "kcmp"

\* One iteration of the for loop of other_gpu_usage_stats / npu_usage_stats:
\* read_dir yields an entry, it is judged and, when plausible, read and merged.
ScanEntry ==
    /\ scanpc = "scanning"
    /\ Cardinality(DOMAIN fd_file) < MaxEntries
    /\ \E fd_num \in FdNums \ DOMAIN fd_file, file \in Files,
          ci \in 1..Len(FdinfoContents), rd \in BOOLEAN :
         \E env \in EnvAnswers(fd_num, file, seen_fds) :
           LET plausible == drm_fdinfo_plausible(fd_num, env, seen_fds)
               res == IF scan = "gpu" THEN read_gpu_fdinfo(rd, FdinfoContents[ci])
                      ELSE read_npu_fdinfo(rd, FdinfoContents[ci])
               merged == plausible /\ IsOk(res)
           IN /\ (~plausible => rd)            \* no read is attempted
              /\ fd_file' = fd_file @@ (fd_num :> file)
              /\ seen_fds' = SeenAfter(seen_fds, plausible, fd_num)
              /\ return_map' = MapAfter(return_map, scan, plausible, res)
              /\ parsed' = IF merged THEN parsed \cup {res.val} ELSE parsed
              /\ last' = [fd_num |-> fd_num, file |-> file,
                          stage |-> Stage(fd_num, env), plausible |-> plausible,
                          fd_meta |-> IF Stage(fd_num, env) \in {"major", "kcmp"}
                                      THEN env.fd_meta ELSE "none",
                          kcmp_err |-> \E s \in DOMAIN env.kcmp : ~IsOk(env.kcmp[s]),
                          kcmp_same |-> \E s \in DOMAIN env.kcmp :
                                           env.kcmp[s] = Ok(0),
                          merged |-> merged]
              /\ UNCHANGED <<scan, scanpc>>

\* read_dir itself, or one of its entries, is an Err: `?` returns it
ScanFail ==
    /\ scanpc = "scanning"
    /\ scanpc' = "failed"
    /\ UNCHANGED <<scan, fd_file, seen_fds, return_map, parsed, last>>

\* the directory is exhausted: Ok(return_map)
ScanDone ==
    /\ scanpc = "scanning"
    /\ scanpc' = "done"
    /\ UNCHANGED <<scan, fd_file, seen_fds, return_map, parsed, last>>

-----------------------------------------------------------------------------
(* The NVIDIA session cache and the lookups *)

SlotN1 == "0000:01:00.0"
SlotN2 == "0000:41:00.0"

\* NVML_DEVICES: the managed devices, in the order of nvml.device_by_index
NVML_DEVICES == <<SlotN1, SlotN2>>

Threads == {"t1", "t2"}
Pids == {10, 20}

Sample(pid, sm, enc, dec) ==
    [pid |-> pid, sm_util |-> sm, enc_util |-> enc, dec_util |-> dec]

\* what gpu.process_utilization_stats(..).unwrap_or_default() may give for a device;
\* the empty list also stands for a failed query
SampleLists == {
    << >>,
    <<Sample(10, 10, 1, 2), Sample(20, 100, 100, 100), Sample(10, 15, 0, 3)>>,
    <<Sample(10, 100, 30, 0), Sample(10, 60, 0, 0)>>
}

Used(bytes) == [tag |-> "Used", bytes |-> bytes]
Unavailable == [tag |-> "Unavailable", bytes |-> 0]
Info(pid, mem) == [pid |-> pid, used_gpu_memory |-> mem]

\* gpu.running_graphics_processes().unwrap_or_default()
GraphicsLists == { << >>, <<Info(10, Used(4096)), Info(20, Used(1000))>> }

\* gpu.running_compute_processes().unwrap_or_default()
ComputeLists == { << >>, <<Info(10, Unavailable), Info(10, Used(512))>> }

\* What the devices may answer to the queries of a refresh: the sample lists, the
\* graphics lists and the compute lists. AllAnswers is every answer of the model;
\* FewAnswers is the one answer the machine with two threads draws, where the
\* refreshes are told apart by their numbers and not by their data.
AllAnswers == [samples |-> SampleLists, graphics |-> GraphicsLists,
               compute |-> ComputeLists]
FewAnswers == [samples |-> {<<Sample(10, 10, 1, 2), Sample(10, 15, 0, 3)>>},
               graphics |-> {<<Info(10, Used(4096))>>},
               compute |-> {<< >>}]

DeviceSlots == {NVML_DEVICES[i] : i \in DOMAIN NVML_DEVICES}

\* nvidia_process_stats that inserts no key for a device without samples
nvidia_process_stats_skipping_empty(answers) ==
    {[s \in {d \in DeviceSlots : full[d] # << >>} |-> full[s]] :
        full \in [DeviceSlots -> answers.samples]}

\* nvidia_process_stats: one list per managed device
nvidia_process_stats(answers) == [DeviceSlots -> answers.samples]

\* nvidia_process_infos: per managed device, the graphics list extended by the
\* compute list
nvidia_process_infos(answers) ==
    {[s \in DeviceSlots |-> g[s] \o c[s]] :
        g \in [DeviceSlots -> answers.graphics],
        c \in [DeviceSlots -> answers.compute]}

\* FilterPid without the filter
FilterPidKeepsAll(list, pid) == list

RECURSIVE FilterPid(_, _)
\* .iter().filter(|process| process.pid == pid as u32)
FilterPid(list, pid) ==
    IF list = << >> THEN << >>
    ELSE (IF Head(list).pid = pid THEN <<Head(list)>> ELSE << >>)
         \o FilterPid(Tail(list), pid)

RECURSIVE ReduceAdd(_, _)
\* .reduce(|acc, curr| (acc.0 + curr.0, acc.1 + curr.1, acc.2 + curr.2)) from acc on
ReduceAdd(acc, list) ==
    IF list = << >> THEN acc
    ELSE ReduceAdd(<<acc[1] + Head(list).sm_util, acc[2] + Head(list).enc_util,
                     acc[3] + Head(list).dec_util>>, Tail(list))

\* this_process_stats of nvidia_gpu_stats, after unwrap_or_default: the (sm, enc,
\* dec) triple, (0, 0, 0) when reduce found no sample. The utilizations are u32
\* percentages, far below u32::MAX, where + is the plain sum.
ThisProcessStats(samples, pid) ==
    LET mine == FilterPid(samples, pid)
    IN IF mine = << >> THEN <<0, 0, 0>>
       ELSE ReduceAdd(<<Head(mine).sm_util, Head(mine).enc_util, Head(mine).dec_util>>,
                      Tail(mine))

\* the match on used_gpu_memory
UsedBytes(info) == IF info.used_gpu_memory.tag = "Unavailable" THEN 0
                   ELSE info.used_gpu_memory.bytes

RECURSIVE SumBytes(_)
SumBytes(list) == IF list = << >> THEN 0 ELSE UsedBytes(Head(list)) + SumBytes(Tail(list))

\* this_process_mem_stats of nvidia_gpu_stats
ThisProcessMemStats(infos, pid) == SumBytes(FilterPid(infos, pid))

\* the GpuUsageStats nvidia_gpu_stats builds
NvidiaGpuStats(triple, mem) ==
    [gfx |-> triple[1], mem |-> mem, enc |-> triple[2], dec |-> triple[3],
     nvidia |-> TRUE]

\* The locals of a thread. id, read_gen, read_src, refreshes, my_stats_gen and
\* my_infos_gen are history: the number of the call, the refill and the call that
\* produced what the first statement of nvidia_gpu_stats read, how many refreshes
\* the call has completed and which refills of the two caches were its own.
NoLocals == [entry |-> "none", id |-> 0, pid |-> 0, dev |-> 0, acc |-> <<0, 0, 0>>,
             read |-> << >>, read_gen |-> 0, read_src |-> 0, ret |-> EmptyMap,
             procs |-> 0, refreshes |-> 0, my_stats_gen |-> 0, my_infos_gen |-> 0]

NoLookup == [entry |-> "none", pid |-> 0, slot |-> "none",
             samples |-> << >>, infos |-> << >>, result |-> Err,
             stats_gen |-> 0, infos_gen |-> 0, stats_src |-> 0, infos_src |-> 0,
             my_stats_gen |-> 0, my_infos_gen |-> 0]

IdleNvidia ==
    /\ NVIDIA_PROCESSES_STATS = EmptyMap
    /\ NVIDIA_PROCESS_INFOS = EmptyMap
    /\ stats_lock = "free"
    /\ infos_lock = "free"
    /\ stats_gen = 0
    /\ infos_gen = 0
    /\ stats_src = 0
    /\ infos_src = 0
    /\ calls = 0
    /\ pc = [t \in Threads |-> "idle"]
    /\ tl = [t \in Threads |-> NoLocals]
    /\ lk = NoLookup

\* EntryPc of an all_process_data that does not call update_nvidia_stats first
EntryPcNoRefresh(entry) ==
    CASE entry = "all_process_data" -> "glob"
      [] entry = "update_nvidia_stats" -> "stats_clear"
      [] entry = "try_from_path" -> "read_stats"

\* where a call of a public function starts
EntryPc(entry) ==
    CASE entry = "all_process_data" -> "stats_clear"
      [] entry = "update_nvidia_stats" -> "stats_clear"
      [] entry = "try_from_path" -> "read_stats"

\* where update_nvidia_stats returns to
AfterUpdate(entry) == IF entry = "all_process_data" THEN "glob" ELSE "idle"

\* A thread calls all_process_data(), update_nvidia_stats() or
\* try_from_path(/proc/<pid>)
Call(t) ==
    /\ pc[t] = "idle"
    /\ calls < MaxCalls
    /\ \E entry \in {"all_process_data", "update_nvidia_stats", "try_from_path"},
          pid \in Pids :
         /\ pc' = [pc EXCEPT ![t] = EntryPc(entry)]
         /\ tl' = [tl EXCEPT ![t] = [NoLocals EXCEPT !.entry = entry,
                       !.id = calls + 1,
                       !.pid = IF entry = "try_from_path" THEN pid ELSE 0,
                       !.dev = IF entry = "try_from_path" THEN 1 ELSE 0]]
    /\ calls' = calls + 1
    /\ UNCHANGED <<NVIDIA_PROCESSES_STATS, NVIDIA_PROCESS_INFOS, stats_lock,
                   infos_lock, stats_gen, infos_gen, stats_src, infos_src, lk>>

\* update_nvidia_stats: NVIDIA_PROCESSES_STATS.write() and stats.clear()
StatsClear(t) ==
    /\ pc[t] = "stats_clear"
    /\ stats_lock = "free"
    /\ stats_lock' = t
    /\ NVIDIA_PROCESSES_STATS' = EmptyMap
    /\ pc' = [pc EXCEPT ![t] = "stats_extend"]
    /\ UNCHANGED <<NVIDIA_PROCESS_INFOS, infos_lock, stats_gen, infos_gen,
                   stats_src, infos_src, calls, tl, lk>>

\* update_nvidia_stats: stats.extend(Self::nvidia_process_stats()), and the write
\* guard is dropped at the end of the block
StatsExtend(t, answers) ==
    /\ pc[t] = "stats_extend"
    /\ \E fresh \in nvidia_process_stats(answers) : NVIDIA_PROCESSES_STATS' = fresh
    /\ stats_lock' = "free"
    /\ stats_gen' = stats_gen + 1
    /\ stats_src' = tl[t].id
    /\ tl' = [tl EXCEPT ![t].my_stats_gen = stats_gen + 1]
    /\ pc' = [pc EXCEPT ![t] = "infos_clear"]
    /\ UNCHANGED <<NVIDIA_PROCESS_INFOS, infos_lock, infos_gen, infos_src, calls, lk>>

\* update_nvidia_stats: NVIDIA_PROCESS_INFOS.write() and infos.clear()
InfosClear(t) ==
    /\ pc[t] = "infos_clear"
    /\ infos_lock = "free"
    /\ infos_lock' = t
    /\ NVIDIA_PROCESS_INFOS' = EmptyMap
    /\ pc' = [pc EXCEPT ![t] = "infos_extend"]
    /\ UNCHANGED <<NVIDIA_PROCESSES_STATS, stats_lock, stats_gen, infos_gen,
                   stats_src, infos_src, calls, tl, lk>>

\* update_nvidia_stats: infos.extend(Self::nvidia_process_infos()), the guard is
\* dropped and the function returns
InfosExtend(t, answers) ==
    /\ pc[t] = "infos_extend"
    /\ \E fresh \in nvidia_process_infos(answers) : NVIDIA_PROCESS_INFOS' = fresh
    /\ infos_lock' = "free"
    /\ infos_gen' = infos_gen + 1
    /\ infos_src' = tl[t].id
    /\ tl' = [tl EXCEPT ![t] = IF AfterUpdate(tl[t].entry) = "idle" THEN NoLocals
                                ELSE [@ EXCEPT !.my_infos_gen = infos_gen + 1,
                                               !.refreshes = @ + 1]]
    /\ pc' = [pc EXCEPT ![t] = AfterUpdate(tl[t].entry)]
    /\ UNCHANGED <<NVIDIA_PROCESSES_STATS, stats_lock, stats_gen, stats_src, calls, lk>>

\* all_process_data: the glob loop yields the next process and try_from_path
\* reaches gpu_usage_stats, or the loop ends and the pass returns
Glob(t) ==
    /\ pc[t] = "glob"
    /\ \/ /\ tl[t].procs < MaxProcs
          /\ \E pid \in Pids :
               tl' = [tl EXCEPT ![t].pid = pid, ![t].dev = 1, ![t].ret = EmptyMap,
                                ![t].procs = @ + 1]
          /\ pc' = [pc EXCEPT ![t] = "read_stats"]
       \/ /\ pc' = [pc EXCEPT ![t] = "idle"]
          /\ tl' = [tl EXCEPT ![t] = NoLocals]
    /\ UNCHANGED <<NVIDIA_PROCESSES_STATS, NVIDIA_PROCESS_INFOS, stats_lock,
                   infos_lock, stats_gen, infos_gen, stats_src, infos_src, calls, lk>>

\* the lookup that is recorded when nvidia_gpu_stats returns
Lookup(t, slot, samples, infos, result, sgen, igen, ssrc, isrc) ==
    [entry |-> tl[t].entry, pid |-> tl[t].pid, slot |-> slot,
     samples |-> samples, infos |-> infos, result |-> result,
     stats_gen |-> sgen, infos_gen |-> igen, stats_src |-> ssrc, infos_src |-> isrc,
     my_stats_gen |-> tl[t].my_stats_gen, my_infos_gen |-> tl[t].my_infos_gen]

\* where nvidia_gpu_stats_all goes after a device: the next device, or back to
\* the caller of try_from_path
AfterDevice(t) ==
    IF tl[t].dev < Len(NVML_DEVICES) THEN "read_stats"
    ELSE IF tl[t].entry = "all_process_data" THEN "glob" ELSE "idle"

NextDev(t) == IF tl[t].dev < Len(NVML_DEVICES) THEN tl[t].dev + 1 ELSE 0

\* the locals of t after nvidia_gpu_stats returned for a device: `after` while the
\* call goes on, none once try_from_path has returned to the thread
LocalsAfterDevice(t, after) == IF AfterDevice(t) = "idle" THEN NoLocals ELSE after

\* nvidia_gpu_stats, first statement: under NVIDIA_PROCESSES_STATS.read(), get the
\* slot's samples (Err when the slot is no key), filter and reduce them
ReadStats(t) ==
    /\ pc[t] = "read_stats"
    /\ stats_lock = "free"
    /\ LET slot == NVML_DEVICES[tl[t].dev]
       IN IF slot \in DOMAIN NVIDIA_PROCESSES_STATS
          THEN /\ tl' = [tl EXCEPT
                     ![t].acc = ThisProcessStats(NVIDIA_PROCESSES_STATS[slot], tl[t].pid),
                     ![t].read = NVIDIA_PROCESSES_STATS[slot],
                     ![t].read_gen = stats_gen,
                     ![t].read_src = stats_src]
               /\ pc' = [pc EXCEPT ![t] = "read_infos"]
               /\ lk' = lk
          ELSE /\ lk' = Lookup(t, slot, << >>, << >>, Err, stats_gen, 0, stats_src, 0)
               /\ tl' = [tl EXCEPT ![t] =
                             LocalsAfterDevice(t, [@ EXCEPT !.dev = NextDev(t)])]
               /\ pc' = [pc EXCEPT ![t] = AfterDevice(t)]
    /\ UNCHANGED <<NVIDIA_PROCESSES_STATS, NVIDIA_PROCESS_INFOS, stats_lock,
                   infos_lock, stats_gen, infos_gen, stats_src, infos_src, calls>>

\* nvidia_gpu_stats, second statement and return: under NVIDIA_PROCESS_INFOS.read(),
\* get the slot's records (Err when the slot is no key), filter and sum them, and
\* build the GpuUsageStats; nvidia_gpu_stats_all inserts an Ok into its return_map
ReadInfos(t) ==
    /\ pc[t] = "read_infos"
    /\ infos_lock = "free"
    /\ LET slot == NVML_DEVICES[tl[t].dev]
           found == slot \in DOMAIN NVIDIA_PROCESS_INFOS
           infos == IF found THEN NVIDIA_PROCESS_INFOS[slot] ELSE << >>
           result == IF found
                     THEN Ok(NvidiaGpuStats(tl[t].acc,
                                            ThisProcessMemStats(infos, tl[t].pid)))
                     ELSE Err
       IN /\ lk' = Lookup(t, slot, tl[t].read, infos, result, tl[t].read_gen,
                          infos_gen, tl[t].read_src, infos_src)
          /\ tl' = [tl EXCEPT ![t] = LocalsAfterDevice(t,
                         [@ EXCEPT !.dev = NextDev(t),
                                   !.acc = <<0, 0, 0>>, !.read = << >>,
                                   !.read_gen = 0, !.read_src = 0,
                                   !.ret = IF found THEN (slot :> result.val) @@ @
                                           ELSE @])]
          /\ pc' = [pc EXCEPT ![t] = AfterDevice(t)]
    /\ UNCHANGED <<NVIDIA_PROCESSES_STATS, NVIDIA_PROCESS_INFOS, stats_lock,
                   infos_lock, stats_gen, infos_gen, stats_src, infos_src, calls>>

-----------------------------------------------------------------------------
(* The kernel pseudo-file parser and the snapshot of one process *)

\* we split the stat contents where the executable name ends
STAT_OFFSET == 2
STAT_PARENT_PID == 3 - STAT_OFFSET
STAT_USER_CPU_TIME == 13 - STAT_OFFSET
STAT_SYSTEM_CPU_TIME == 14 - STAT_OFFSET
STAT_NICE == 18 - STAT_OFFSET
STAT_STARTTIME == 21 - STAT_OFFSET

\* sysconf::pagesize
PAGESIZE == 4096

\* A space-separated token of stat or statm: a decimal number, or other text
Num(v) == [num |-> TRUE, val |-> v]
Junk == [num |-> FALSE, val |-> 0]

\* Vec::get(i) on the tokens, 0-based: Ok(token) or Err for None
Get(tokens, i) == IF i + 1 <= Len(tokens) THEN Ok(tokens[i + 1]) ELSE Err

\* .context(..).and_then(|x| x.parse().context(..)) with str::parse::<u64> or
\* str::parse::<usize>
ParseUnsigned(x) ==
    IF ~IsOk(x) THEN Err
    ELSE IF x.val.num /\ x.val.val >= 0 THEN Ok(x.val.val) ELSE Err

\* the same with str::parse::<i32> (every number of StatTexts is within i32)
ParseI32(x) ==
    IF ~IsOk(x) THEN Err
    ELSE IF x.val.num THEN Ok(x.val.val) ELSE Err

\* the values of an i8
I8 == (0 - 128)..127

\* Niceness::try_new with less_or_equal = 20
NicenessUpTo20(n) == IF n <= 20 /\ n >= 0 - 20 THEN Ok(n) ELSE Err

\* Niceness::try_new: validate(less_or_equal = 19), validate(greater_or_equal = -20)
Niceness(n) == IF n <= 19 /\ n >= 0 - 20 THEN Ok(n) ELSE Err

\* the same with Niceness::from_str: parse an i8, then Niceness::try_new
ParseNiceness(x) ==
    IF ~IsOk(x) THEN Err
    ELSE IF ~x.val.num \/ x.val.val \notin I8 THEN Err
    ELSE Niceness(x.val.val)

\* the tokens of a stat file after the executable name: state, ppid, .., with the
\* niceness `nice` and 21 tokens in all unless cut
StatTokens(len, utime, nice) ==
    [i \in 1..len |->
        CASE i = 1 -> Junk                      \* the state letter
          [] i = STAT_PARENT_PID + 1 -> Num(1)
          [] i = STAT_USER_CPU_TIME + 1 -> utime
          [] i = STAT_SYSTEM_CPU_TIME + 1 -> Num(7)
          [] i = STAT_NICE + 1 -> nice
          [] i = STAT_STARTTIME + 1 -> Num(4242)
          [] OTHER -> Num(0)]

StatTexts == {
    StatTokens(21, Num(33), Num(0)),
    StatTokens(21, Num(33), Num(19)),
    StatTokens(21, Num(33), Num(0 - 20)),
    StatTokens(21, Num(33), Num(20)),          \* niceness out of range
    StatTokens(21, Num(33), Num(0 - 21)),
    StatTokens(21, Num(33), Num(128)),         \* not even an i8
    StatTokens(21, Junk, Num(0)),              \* a field that does not parse
    StatTokens(15, Num(33), Num(0))            \* a truncated file
}

\* the tokens of statm: size resident shared ..
StatmTexts == {
    <<Num(500), Num(100), Num(40)>>,
    <<Num(500), Num(10), Num(40)>>,            \* resident < shared
    <<Num(500), Junk, Num(40)>>,
    <<Num(500)>>
}

\* The Uid: line of status, as RE_UID sees it: no such line, a line without a
\* digit after "Uid:", or the digits of the first number
NoUidLine == [kind |-> "absent", digits |-> << >>]
UidNoDigits == [kind |-> "nodigits", digits |-> << >>]
UidDigits(d) == [kind |-> "digits", digits |-> d]

UidLines == {
    NoUidLine,
    UidNoDigits,
    UidDigits(<<0>>),
    UidDigits(<<1, 0, 0, 0>>),
    UidDigits(<<6, 5, 5, 3, 4>>),
    UidDigits(<<4, 2, 9, 4, 9, 6, 7, 2, 9, 5>>),
    UidDigits(<<4, 2, 9, 4, 9, 6, 7, 2, 9, 6>>),
    UidDigits(<<0, 0, 1, 0, 0, 0>>),
    UidDigits(<<1, 2, 3, 4, 5, 6, 7, 8, 9, 0, 1>>)
}

\* the decimal digits of u32::MAX
U32MaxDigits == <<4, 2, 9, 4, 9, 6, 7, 2, 9, 5>>

RECURSIVE StripZeros(_)
\* the digits without leading zeros (one digit is kept)
StripZeros(d) == IF Len(d) > 1 /\ Head(d) = 0 THEN StripZeros(Tail(d)) ELSE d

RECURSIVE DigitsLeq(_, _)
\* a <= b for two digit strings of the same length
DigitsLeq(a, b) ==
    IF a = << >> THEN TRUE
    ELSE IF Head(a) # Head(b) THEN Head(a) < Head(b)
    ELSE DigitsLeq(Tail(a), Tail(b))

\* str::parse::<u32> of a string of digits: the number (as its digits, without
\* leading zeros), or Err when it is above u32::MAX
ParseU32(digits) ==
    LET d == StripZeros(digits)
    IN IF Len(d) < Len(U32MaxDigits) THEN Ok(d)
       ELSE IF Len(d) = Len(U32MaxDigits) /\ DigitsLeq(d, U32MaxDigits) THEN Ok(d)
       ELSE Err

\* a get_uid that defaults to 0 when the number does not parse (variant used to
\* test C8)
GetUidOrZero(line) ==
    IF line.kind = "digits" /\ IsOk(ParseU32(line.digits)) THEN ParseU32(line.digits)
    ELSE Ok(<<0>>)

\* get_uid after status is read: the parsed first number of the Uid: line, Err when
\* it does not parse, Ok(0) when RE_UID does not match
GetUidOf(line) ==
    IF line.kind = "digits" THEN ParseU32(line.digits) ELSE Ok(<<0>>)

\* USERS_CACHE.get(&uid).cloned().unwrap_or(String::from("root"))
UserOf(users, uid) == IF uid \in DOMAIN users THEN users[uid] ELSE "root"

\* the user databases of the model: with and without an entry for uid 0
UserTables == {
    (<<0>> :> "root") @@ (<<1, 0, 0, 0>> :> "alice"),
    (<<1, 0, 0, 0>> :> "alice")
}

HexChars == <<"0", "1", "2", "3", "4", "5", "6", "7", "8", "9",
              "a", "b", "c", "d", "e", "f">>
UpperHexChars == <<"A", "B", "C", "D", "E", "F">>

IsHexChar(c) == (\E i \in DOMAIN HexChars : HexChars[i] = c)
                \/ (\E i \in DOMAIN UpperHexChars : UpperHexChars[i] = c)

\* char::to_digit(16).unwrap_or_default()
ToDigit16(c) ==
    IF \E i \in DOMAIN HexChars : HexChars[i] = c
    THEN (CHOOSE i \in DOMAIN HexChars : HexChars[i] = c) - 1
    ELSE IF \E i \in DOMAIN UpperHexChars : UpperHexChars[i] = c
    THEN (CHOOSE i \in DOMAIN UpperHexChars : UpperHexChars[i] = c) + 9
    ELSE 0

\* The Cpus_allowed: line of status: no such line, or the text after the colon and
\* the white space (the kernel separates groups of 32 bits by commas)
NoMaskLine == [kind |-> "absent", text |-> << >>]
MaskLine(text) == [kind |-> "text", text |-> text]

MaskLines == {
    NoMaskLine,
    MaskLine(<<"f">>),
    MaskLine(<<"1">>),
    MaskLine(<<"3", "5">>),
    MaskLine(<<"0", "0", "F", "a">>),
    MaskLine(<<"f", "f", ",", "0", "0", "0", "0", "0", "0", "0", "5">>)
}

CpuCounts == {1, 4, 6, 8, 40}

RECURSIVE HexPrefix(_)
\* what ([0-9A-Fa-f]+) captures at the start of the text
HexPrefix(text) ==
    IF text = << >> \/ ~IsHexChar(Head(text)) THEN << >>
    ELSE <<Head(text)>> \o HexPrefix(Tail(text))

\* RE_AFFINITY.captures(&status) .. .unwrap_or_default(): the captured digits, the
\* empty string when the regex does not match
AffinityCapture(line) == IF line.kind = "absent" THEN << >> ELSE HexPrefix(line.text)

Reverse(seq) == [i \in 1..Len(seq) |-> seq[Len(seq) + 1 - i]]

\* (int & (1 << i)) != 0
BitOf(int, i) == (int \div (2 ^ i)) % 2 = 1

RECURSIVE PushBits(_, _, _, _)
\* (0..4).for_each(|i| if affinity.len() < *NUM_CPUS { affinity.push(..) }) from i on
PushBits(affinity, int, i, cpus) ==
    IF i = 4 THEN affinity
    ELSE PushBits(IF Len(affinity) < cpus THEN Append(affinity, BitOf(int, i))
                  ELSE affinity, int, i + 1, cpus)

RECURSIVE ForEachDigit(_, _, _)
\* .for_each(|int| ..) over the digits that are left
ForEachDigit(affinity, ints, cpus) ==
    IF ints = << >> THEN affinity
    ELSE ForEachDigit(PushBits(affinity, Head(ints), 0, cpus), Tail(ints), cpus)

\* the affinity vector try_from_path builds from the Cpus_allowed: line
Affinity(line, cpus) ==
    LET chars == AffinityCapture(line)
        ints == Reverse([i \in 1..Len(chars) |-> ToDigit16(chars[i])])
    IN ForEachDigit(<< >>, ints, cpus)

\* usize::saturating_sub
SaturatingSub(a, b) == IF a >= b THEN a - b ELSE 0

\* The reads of try_from_path in their order; a process that vanishes makes this
\* read and every later one fail ("cgroup" stands for every read after get_uid's)
ReadOrder == <<"stat", "statm", "status", "comm", "cmdline", "uid_status", "cgroup">>
Vanishings == {"never"} \cup {ReadOrder[i] : i \in DOMAIN ReadOrder}

IndexOf(file) == CHOOSE i \in DOMAIN ReadOrder : ReadOrder[i] = file

\* std::fs::read_to_string(proc_path.join(file)) is Ok
Readable(p, file) == p.gone = "never" \/ IndexOf(file) < IndexOf(p.gone)

\* try_from_path for the process p = [pid, gone, stat, statm, uid, mask]: Ok with
\* the pid, parent_pid, user, CPU times, niceness, affinity, memory_usage and
\* starttime of the ProcessData, or Err
try_from_path(p, cpus, users) ==
    IF ~(Readable(p, "stat") /\ Readable(p, "statm") /\ Readable(p, "status")
         /\ Readable(p, "comm") /\ Readable(p, "cmdline")) THEN Err
    ELSE IF ~Readable(p, "uid_status") THEN Err          \* get_uid reads status again
    ELSE LET uid == GetUidOf(p.uid)
             parent_pid == ParseI32(Get(p.stat, STAT_PARENT_PID))
             user_cpu_time == ParseUnsigned(Get(p.stat, STAT_USER_CPU_TIME))
             system_cpu_time == ParseUnsigned(Get(p.stat, STAT_SYSTEM_CPU_TIME))
             nice == ParseNiceness(Get(p.stat, STAT_NICE))
             starttime == ParseUnsigned(Get(p.stat, STAT_STARTTIME))
             resident == ParseUnsigned(Get(p.statm, 1))
             shared == ParseUnsigned(Get(p.statm, 2))
         IN IF ~IsOk(uid) THEN Err
            ELSE IF ~(IsOk(parent_pid) /\ IsOk(user_cpu_time) /\ IsOk(system_cpu_time)
                      /\ IsOk(nice) /\ IsOk(starttime)) THEN Err
            ELSE IF ~(IsOk(resident) /\ IsOk(shared)) THEN Err
            ELSE Ok([pid |-> p.pid,
                     parent_pid |-> parent_pid.val,
                     user |-> UserOf(users, uid.val),
                     user_cpu_time |-> user_cpu_time.val,
                     system_cpu_time |-> system_cpu_time.val,
                     niceness |-> nice.val,
                     affinity |-> Affinity(p.mask, cpus),
                     memory_usage |->
                         SaturatingMul(SaturatingSub(resident.val, shared.val), PAGESIZE),
                     starttime |-> starttime.val])

Process(pid, gone, stat, statm, uid, mask) ==
    [pid |-> pid, gone |-> gone, stat |-> stat, statm |-> statm, uid |-> uid,
     mask |-> mask]

\* every process of the model
AllProcesses ==
    {Process(10, gone, stat, statm, uid, mask) :
        gone \in Vanishings, stat \in StatTexts, statm \in StatmTexts,
        uid \in UidLines, mask \in MaskLines}

\* the processes an all_process_data pass lists: one that is fine, one whose stat
\* is truncated, one that vanishes before stat is read, one that vanishes before
\* get_uid, one whose uid is above u32::MAX
FewProcesses ==
    {Process(pid, gone, StatTokens(21, Num(33), Num(0)), <<Num(500), Num(100), Num(40)>>,
             UidDigits(<<1, 0, 0, 0>>), MaskLine(<<"f">>)) :
        pid \in Pids, gone \in {"never", "stat", "uid_status"}}
    \cup {Process(20, "never", StatTokens(15, Num(33), Num(0)),
                  <<Num(500), Num(100), Num(40)>>, NoUidLine, NoMaskLine),
          Process(10, "never", StatTokens(21, Num(33), Num(0)),
                  <<Num(500), Num(100), Num(40)>>,
                  UidDigits(<<4, 2, 9, 4, 9, 6, 7, 2, 9, 6>>), NoMaskLine)}

NoTry == [p |-> Process(0, "never", << >>, << >>, NoUidLine, NoMaskLine), out |-> Err,
          called |-> FALSE]

IdlePass ==
    /\ NUM_CPUS = 4
    /\ USERS_CACHE = (<<0>> :> "root")
    /\ passpc = "idle"
    /\ listed = << >>
    /\ process_data = << >>
    /\ tried = NoTry

PassStart ==
    /\ NUM_CPUS \in CpuCounts
    /\ USERS_CACHE \in UserTables
    /\ passpc = "idle"
    /\ listed = << >>
    /\ process_data = << >>
    /\ tried = NoTry

\* a loop that starts over on a failed snapshot (variant used to test C7)
PushOrStartOver(vec, data) == IF IsOk(data) THEN Append(vec, data.val) ELSE << >>

\* if let Ok(data) = data { process_data.push(data) }
PushIfOk(vec, data) == IF IsOk(data) THEN Append(vec, data.val) ELSE vec

\* all_process_data is called
PassCall ==
    /\ passpc = "idle"
    /\ passpc' = "refresh"
    /\ listed' = << >>
    /\ process_data' = << >>
    /\ UNCHANGED <<NUM_CPUS, USERS_CACHE, tried, nvVars>>

\* all_process_data: Self::update_nvidia_stats(), here with no other thread
PassRefresh ==
    /\ passpc = "refresh"
    /\ \E fresh \in nvidia_process_stats(FewAnswers) : NVIDIA_PROCESSES_STATS' = fresh
    /\ \E fresh \in nvidia_process_infos(FewAnswers) : NVIDIA_PROCESS_INFOS' = fresh
    /\ stats_gen' = stats_gen + 1
    /\ infos_gen' = infos_gen + 1
    /\ passpc' = "glob"
    /\ UNCHANGED <<stats_lock, infos_lock, stats_src, infos_src, calls, pc, tl, lk,
                   NUM_CPUS, USERS_CACHE, listed, process_data, tried>>

\* all_process_data: one iteration of the glob loop
PassEntry ==
    /\ passpc = "glob"
    /\ Len(listed) < MaxListed
    /\ \E p \in FewProcesses :
         LET data == try_from_path(p, NUM_CPUS, USERS_CACHE)
         IN /\ process_data' = PushIfOk(process_data, data)
            /\ listed' = Append(listed, [p |-> p, ok |-> IsOk(data)])
            /\ tried' = [p |-> p, out |-> data, called |-> TRUE]
    /\ UNCHANGED <<NUM_CPUS, USERS_CACHE, passpc, nvVars>>

\* all_process_data: the glob is exhausted, Ok(process_data)
PassReturn ==
    /\ passpc = "glob"
    /\ passpc' = "returned"
    /\ UNCHANGED <<NUM_CPUS, USERS_CACHE, listed, process_data, tried, nvVars>>

\* try_from_path is called for one process (one call is followed)
TryFromPath ==
    /\ ~tried.called
    /\ \E p \in AllProcesses :
         tried' = [p |-> p, out |-> try_from_path(p, NUM_CPUS, USERS_CACHE),
                   called |-> TRUE]
    /\ UNCHANGED <<NUM_CPUS, USERS_CACHE, passpc, listed, process_data, nvVars>>

-----------------------------------------------------------------------------
(* The cgroup classifier. A text is the sequence of its characters. *)

Some(v) == [tag |-> "Some", val |-> v]
None == [tag |-> "None", val |-> << >>]

StartsWith(s, pre) == Len(s) >= Len(pre) /\ SubSeq(s, 1, Len(pre)) = pre
EndsWith(s, suf) == Len(s) >= Len(suf) /\ SubSeq(s, Len(s) - Len(suf) + 1, Len(s)) = suf
Contains(s, sub) == \E i \in 0..(Len(s) - Len(sub)) : SubSeq(s, i + 1, i + Len(sub)) = sub

\* the position of the k-th separator of s, 0 before the first and Len(s) + 1
\* after the last
SepPos(s, sep, k) ==
    LET at == {i \in DOMAIN s : s[i] = sep}
    IN IF k = 0 THEN 0
       ELSE IF k > Cardinality(at) THEN Len(s) + 1
       ELSE CHOOSE i \in at : Cardinality({j \in at : j < i}) = k - 1

\* str::split(sep).collect(): the pieces between the separators
Split(s, sep) ==
    [k \in 1..(Cardinality({i \in DOMAIN s : s[i] = sep}) + 1) |->
        SubSeq(s, SepPos(s, sep, k - 1) + 1, SepPos(s, sep, k) - 1)]

\* the characters the \xHH escapes of the model stand for
CharOfByte(hi, lo) ==
    CASE hi = 2 /\ lo = 13 -> "-"
      [] hi = 4 /\ lo = 0 -> "@"
      [] hi = 5 /\ lo = 15 -> "_"
      [] OTHER -> "?"

RECURSIVE UnescapeFrom(_, _)
\* unescape::unescape from the output `out` on: a backslash starts an escape; of
\* the escapes, \\ and \xHH are modelled, every other one counts as invalid (None)
UnescapeFrom(out, rest) ==
    IF rest = << >> THEN Some(out)
    ELSE IF Head(rest) # "\\" THEN UnescapeFrom(Append(out, Head(rest)), Tail(rest))
    ELSE IF Len(rest) >= 2 /\ rest[2] = "\\"
         THEN UnescapeFrom(Append(out, "\\"), SubSeq(rest, 3, Len(rest)))
    ELSE IF Len(rest) >= 4 /\ rest[2] = "x" /\ IsHexChar(rest[3]) /\ IsHexChar(rest[4])
         THEN UnescapeFrom(Append(out, CharOfByte(ToDigit16(rest[3]), ToDigit16(rest[4]))),
                           SubSeq(rest, 5, Len(rest)))
    ELSE None

\* unescape::unescape(s).unwrap_or_else(|| s.to_string())
UnescapeOrSame(str) ==
    IF UnescapeFrom(<< >>, str).tag = "Some" THEN UnescapeFrom(<< >>, str).val ELSE str

V2Prefix == <<"0", ":", ":">>
ScopeSuffix == <<".", "s", "c", "o", "p", "e">>
ServiceSuffix == <<".", "s", "e", "r", "v", "i", "c", "e">>
DbusMark == <<"d", "b", "u", "s", "-", ":">>

\* cgroup.split('\n').find(|s| s.starts_with("0::"))
CgroupsV2Line(text) ==
    LET lines == Split(text, "\n")
        hits == {i \in DOMAIN lines : StartsWith(lines[i], V2Prefix)}
    IN IF hits = {} THEN None
       ELSE Some(lines[CHOOSE i \in hits : \A j \in hits : i <= j])

\* the .scope branch of sanitize_cgroup
ScopeName(cgroups_v2_line) ==
    LET cgroups_segments == Split(cgroups_v2_line, "-")
    IN IF Len(cgroups_segments) > 1
       THEN Some(UnescapeOrSame(cgroups_segments[Len(cgroups_segments) - 1]))
       ELSE None

\* the .service branch of sanitize_cgroup
ServiceName(cgroups_v2_line) ==
    LET cgroups_segments == Split(cgroups_v2_line, "/")
        lst == cgroups_segments[Len(cgroups_segments)]
        stem == SubSeq(lst, 1, Len(lst) - Len(ServiceSuffix))
        name == UnescapeOrSame(Split(stem, "@")[1])
    IN IF Contains(name, DbusMark)
       THEN Some(Split(name, "-")[Len(Split(name, "-"))])
       ELSE Some(name)

sanitize_cgroup(text) ==
    LET cgroups_v2_line == CgroupsV2Line(text)
    IN IF cgroups_v2_line.tag = "None" THEN None
       ELSE IF EndsWith(cgroups_v2_line.val, ScopeSuffix)
            THEN ScopeName(cgroups_v2_line.val)
       ELSE IF EndsWith(cgroups_v2_line.val, ServiceSuffix)
            THEN ServiceName(cgroups_v2_line.val)
       ELSE None

\* what precedes the unified-hierarchy line in the cgroup file
LegacyLines == {
    \* 
    << >>,
    \* 1:name=systemd:/user.slice/a-b-c.scope\n
    <<"1", ":", "n", "a", "m", "e", "=", "s", "y", "s", "t", "e", "m", "d", ":", "/", "u", "s", "e", "r", ".", "s", "l", "i", "c", "e", "/", "a", "-", "b", "-", "c", ".", "s", "c", "o", "p", "e", "\n">>
}

\* the directories of the unified-hierarchy path
CgroupDirs == {
    \* /
    <<"/">>,
    \* /user.slice/
    <<"/", "u", "s", "e", "r", ".", "s", "l", "i", "c", "e", "/">>,
    \* /user.slice/user-1000.slice/
    <<"/", "u", "s", "e", "r", ".", "s", "l", "i", "c", "e", "/", "u", "s", "e", "r", "-", "1", "0", "0", "0", ".", "s", "l", "i", "c", "e", "/">>,
    \* /user.slice/user-1000.slice/user@1000.service/app.slice/
    <<"/", "u", "s", "e", "r", ".", "s", "l", "i", "c", "e", "/", "u", "s", "e", "r", "-", "1", "0", "0", "0", ".", "s", "l", "i", "c", "e", "/", "u", "s", "e", "r", "@", "1", "0", "0", "0", ".", "s", "e", "r", "v", "i", "c", "e", "/", "a", "p", "p", ".", "s", "l", "i", "c", "e", "/">>,
    \* /system.slice/
    <<"/", "s", "y", "s", "t", "e", "m", ".", "s", "l", "i", "c", "e", "/">>
}

\* the final path segments
CgroupUnits == {
    \* app-myapp-1234.scope
    <<"a", "p", "p", "-", "m", "y", "a", "p", "p", "-", "1", "2", "3", "4", ".", "s", "c", "o", "p", "e">>,
    \* session-2.scope
    <<"s", "e", "s", "s", "i", "o", "n", "-", "2", ".", "s", "c", "o", "p", "e">>,
    \* init.scope
    <<"i", "n", "i", "t", ".", "s", "c", "o", "p", "e">>,
    \* app-gnome-firefox-77.scope
    <<"a", "p", "p", "-", "g", "n", "o", "m", "e", "-", "f", "i", "r", "e", "f", "o", "x", "-", "7", "7", ".", "s", "c", "o", "p", "e">>,
    \* app-a\x2db-1.scope
    <<"a", "p", "p", "-", "a", "\\", "x", "2", "d", "b", "-", "1", ".", "s", "c", "o", "p", "e">>,
    \* app-we\ird-1.scope
    <<"a", "p", "p", "-", "w", "e", "\\", "i", "r", "d", "-", "1", ".", "s", "c", "o", "p", "e">>,
    \* foo@1.service
    <<"f", "o", "o", "@", "1", ".", "s", "e", "r", "v", "i", "c", "e">>,
    \* cron.service
    <<"c", "r", "o", "n", ".", "s", "e", "r", "v", "i", "c", "e">>,
    \* dbus-:1.2-org.gnome.Calc@0.service
    <<"d", "b", "u", "s", "-", ":", "1", ".", "2", "-", "o", "r", "g", ".", "g", "n", "o", "m", "e", ".", "C", "a", "l", "c", "@", "0", ".", "s", "e", "r", "v", "i", "c", "e">>,
    \* snap\x2dx.service
    <<"s", "n", "a", "p", "\\", "x", "2", "d", "x", ".", "s", "e", "r", "v", "i", "c", "e">>,
    \* 
    << >>,
    \* .service
    <<".", "s", "e", "r", "v", "i", "c", "e">>,
    \* user.slice
    <<"u", "s", "e", "r", ".", "s", "l", "i", "c", "e">>
}

\* the cgroup files of the model: the lines before, then 0:: with a directory and a
\* final segment, and the newline that ends the line
CgroupFiles ==
    {l \o V2Prefix \o d \o u \o <<"\n">> :
        l \in LegacyLines, d \in CgroupDirs, u \in CgroupUnits}

IdleCgroup ==
    /\ cgroup_file = << >>
    /\ cgroup = None
    /\ cgpc = "idle"

\* std::fs::read_to_string(proc_path.join("cgroup")) returned the file
CgroupStart ==
    /\ cgroup_file \in CgroupFiles
    /\ cgroup = None
    /\ cgpc = "read"

\* .and_then(Self::sanitize_cgroup)
SanitizeCgroup ==
    /\ cgpc = "read"
    /\ cgroup' = sanitize_cgroup(cgroup_file)
    /\ cgpc' = "done"
    /\ UNCHANGED cgroup_file

-----------------------------------------------------------------------------
(* The GPU map of one snapshot: gpu_usage_stats *)

\* nvidia_gpu_stats for a pid and a slot, on the two caches as they are read
nvidia_gpu_stats(pid, pci_slot, stats, infos) ==
    IF pci_slot \notin DOMAIN stats THEN Err      \* couldn't find GPU with this PCI slot
    ELSE IF pci_slot \notin DOMAIN infos THEN Err
    ELSE Ok(NvidiaGpuStats(ThisProcessStats(stats[pci_slot], pid),
                           ThisProcessMemStats(infos[pci_slot], pid)))

\* nvidia_gpu_stats_all: the Ok results of the managed devices
nvidia_gpu_stats_all(pid, stats, infos) ==
    [pci_slot \in {d \in DeviceSlots : IsOk(nvidia_gpu_stats(pid, d, stats, infos))} |->
        nvidia_gpu_stats(pid, pci_slot, stats, infos).val]

\* Extend that keeps the entry the map already has
ExtendKeepsOld(map, more) == map @@ more

\* BTreeMap::extend: the entries of `more` are inserted, replacing equal keys
Extend(map, more) == more @@ map

\* gpu_usage_stats, given what other_gpu_usage_stats returned
gpu_usage_stats(other, pid, stats, infos) ==
    LET nvidia_stats == nvidia_gpu_stats_all(pid, stats, infos)
        other_stats == UnwrapOr(other, EmptyMap)     \* unwrap_or_default
    IN Extend(other_stats, nvidia_stats)

\* fdinfo texts of the fds of a process that has a DRM fd on a slot NVML manages too
MergeContents == <<
    FdinfoContents[1],
    FdinfoContents[3],
    [FdinfoContents[2] EXCEPT !.pdev = SlotN1]
>>

\* the return_map of a scan that read the entries of `cis` (indexes of MergeContents)
RECURSIVE ScanMapOf(_, _)
ScanMapOf(map, cis) ==
    IF cis = << >> THEN map
    ELSE LET res == read_gpu_fdinfo(TRUE, MergeContents[Head(cis)])
         IN ScanMapOf(EntryAndModifyOrInsert(map, "gpu", res.val.slot, res.val.stats),
                      Tail(cis))

\* the return_maps a scan of up to two such entries ends with
ScanMaps ==
    {ScanMapOf(EmptyMap, cis) :
        cis \in {<< >>} \cup {<<i>> : i \in DOMAIN MergeContents}
                \cup {<<i, j>> : i \in DOMAIN MergeContents, j \in DOMAIN MergeContents}}

\* the two caches before the first refresh, or after a refresh
CachePairs ==
    {<<EmptyMap, EmptyMap>>}
    \cup (nvidia_process_stats(AllAnswers) \X nvidia_process_infos(AllAnswers))

\* what other_gpu_usage_stats returned
OtherGpuUsageStats == IF scanpc = "failed" THEN Err ELSE Ok(return_map)

IdleMerge ==
    /\ gpu_pid = 0
    /\ gpu_usage = EmptyMap
    /\ gpupc = "idle"

\* try_from_path reaches gpu_usage_stats: the caches are as the last refresh left
\* them and the fdinfo scan of the process ends as it ends
MergeStart ==
    /\ gpu_pid \in Pids
    /\ gpu_usage = EmptyMap
    /\ gpupc = "call"
    /\ scan = "gpu"
    /\ scanpc \in {"done", "failed"}
    /\ return_map \in ScanMaps
    /\ fd_file = EmptyMap
    /\ seen_fds = {}
    /\ parsed = {}
    /\ last = NoEntry
    /\ \E pair \in CachePairs :
         /\ NVIDIA_PROCESSES_STATS = pair[1]
         /\ NVIDIA_PROCESS_INFOS = pair[2]
    /\ stats_lock = "free"
    /\ infos_lock = "free"
    /\ stats_gen = (IF NVIDIA_PROCESSES_STATS = EmptyMap THEN 0 ELSE 1)
    /\ infos_gen = stats_gen
    /\ stats_src = stats_gen
    /\ infos_src = stats_gen
    /\ calls = stats_gen
    /\ pc = [t \in Threads |-> "idle"]
    /\ tl = [t \in Threads |-> NoLocals]
    /\ lk = NoLookup

\* let gpu_usage_stats = Self::gpu_usage_stats(proc_path, pid)
GpuUsageStats ==
    /\ gpupc = "call"
    /\ gpu_usage' = gpu_usage_stats(OtherGpuUsageStats, gpu_pid, NVIDIA_PROCESSES_STATS,
                                    NVIDIA_PROCESS_INFOS)
    /\ gpupc' = "done"
    /\ UNCHANGED gpu_pid

-----------------------------------------------------------------------------
(* The parsers of one fdinfo text: read_gpu_fdinfo and read_npu_fdinfo *)

\* a counter key of a text: absent, or present with this number
KeyOrNot(v) == {Absent, v}

\* the fdinfo texts of the model: every driver line, with and without a PCI
\* address, and every combination of the counter keys
FdinfoTexts ==
    [driver : {"amdgpu", "i915", "amdxdna_accel_driver", NoDriver},
     pdev : {SlotA, NoSlot},
     gfx : KeyOrNot(100), render : KeyOrNot(30), compute : KeyOrNot(20),
     enc : KeyOrNot(5), video : KeyOrNot(40), dec : KeyOrNot(7),
     vram : KeyOrNot(3), gtt : KeyOrNot(1), npu : KeyOrNot(50), total : KeyOrNot(2)]

NoParse == [parser |-> "none", result |-> Err]

IdleParse ==
    /\ content = FdinfoContents[1]
    /\ parse_out = NoParse
    /\ parsepc = "idle"

\* an entry was judged plausible and its parser is called
ParseStart ==
    /\ content \in FdinfoTexts
    /\ parse_out = NoParse
    /\ parsepc = "read"

\* Self::read_gpu_fdinfo(&fdinfo_path)
ReadGpuFdinfo ==
    /\ parsepc = "read"
    /\ \E rd \in BOOLEAN :
         parse_out' = [parser |-> "gpu", result |-> read_gpu_fdinfo(rd, content)]
    /\ parsepc' = "done"
    /\ UNCHANGED content

\* Self::read_npu_fdinfo(&fdinfo_path)
ReadNpuFdinfo ==
    /\ parsepc = "read"
    /\ \E rd \in BOOLEAN :
         parse_out' = [parser |-> "npu", result |-> read_npu_fdinfo(rd, content)]
    /\ parsepc' = "done"
    /\ UNCHANGED content

-----------------------------------------------------------------------------
(* The specifications *)

InitScan ==
    ScanStart /\ IdleNvidia /\ IdlePass /\ IdleCgroup /\ IdleMerge /\ IdleParse

NextScan ==
    (ScanEntry \/ ScanFail \/ ScanDone)
    /\ UNCHANGED <<nvVars, passVars, cgVars, gpuVars, parseVars>>

SpecScan == InitScan /\ [][NextScan]_vars

InitNvidia ==
    IdleNvidia /\ IdleScan /\ IdlePass /\ IdleCgroup /\ IdleMerge /\ IdleParse

\* a step of thread t, the devices answering from `answers`
ThreadStep(t, answers) ==
    \/ Call(t)
    \/ StatsClear(t)
    \/ StatsExtend(t, answers)
    \/ InfosClear(t)
    \/ InfosExtend(t, answers)
    \/ Glob(t)
    \/ ReadStats(t)
    \/ ReadInfos(t)

\* the threads of the process call the public functions concurrently
NextNvidia ==
    (\E t \in Threads : ThreadStep(t, FewAnswers))
    /\ UNCHANGED <<scanVars, passVars, cgVars, gpuVars, parseVars>>

SpecNvidia == InitNvidia /\ [][NextNvidia]_vars

\* one thread calls the public functions one after the other
NextLookup ==
    ThreadStep("t1", AllAnswers)
    /\ UNCHANGED <<scanVars, passVars, cgVars, gpuVars, parseVars>>

SpecLookup == InitNvidia /\ [][NextLookup]_vars

\* a collection pass
Init == PassStart /\ IdleNvidia /\ IdleScan /\ IdleCgroup /\ IdleMerge /\ IdleParse

Next ==
    (PassCall \/ PassRefresh \/ PassEntry \/ PassReturn)
    /\ UNCHANGED <<scanVars, cgVars, gpuVars, parseVars>>

Spec == Init /\ [][Next]_vars

\* the snapshot of one process
NextSnapshot == TryFromPath /\ UNCHANGED <<scanVars, cgVars, gpuVars, parseVars>>

SpecSnapshot == Init /\ [][NextSnapshot]_vars

\* the classification of one cgroup file
InitCgroup ==
    CgroupStart /\ IdleNvidia /\ IdleScan /\ IdlePass /\ IdleMerge /\ IdleParse

NextCgroup ==
    SanitizeCgroup /\ UNCHANGED <<scanVars, nvVars, passVars, gpuVars, parseVars>>

SpecCgroup == InitCgroup /\ [][NextCgroup]_vars

\* the GPU map of one snapshot
InitMerge == MergeStart /\ IdlePass /\ IdleCgroup /\ IdleParse

NextMerge ==
    GpuUsageStats /\ UNCHANGED <<scanVars, nvVars, passVars, cgVars, parseVars>>

SpecMerge == InitMerge /\ [][NextMerge]_vars

\* the parsers of one fdinfo text
InitParse ==
    ParseStart /\ IdleScan /\ IdleNvidia /\ IdlePass /\ IdleCgroup /\ IdleMerge

NextParse ==
    (ReadGpuFdinfo \/ ReadNpuFdinfo)
    /\ UNCHANGED <<scanVars, nvVars, passVars, cgVars, gpuVars>>

SpecParse == InitParse /\ [][NextParse]_vars

-----------------------------------------------------------------------------
(* Claims about the fdinfo scan, checked under SpecScan *)

\* the fds enumerated before the last one that are the same file object as it
EarlierSameFile == {f \in DOMAIN fd_file \ {last.fd_num} : fd_file[f] = last.file}

\* C1: when the entry reached the comparison with the seen fds, a comparison
\* returned an error and none returned 0 (equal), the error does not make the
\* candidate a duplicate: it is judged plausible.
C1_KcmpErrorIsNotEquivalence ==
    (last.stage = "kcmp" /\ last.kcmp_err /\ ~last.kcmp_same) => last.plausible

\* C4 as stated: an fd that is the same file object as an fd enumerated before it
\* is rejected before its content is read, and nothing of it is merged.
C4_SecondOfEquivalentPairRejected ==
    (last.stage # "none" /\ EarlierSameFile # {})
        => (~last.plausible /\ ~last.merged)

\* C4 as amended: an fd whose fdinfo entry opens and stats, and that is the same
\* file object as an fd accepted before it in this scan, is rejected before its
\* content is read, and nothing of it is merged.
C4_DuplicateOfAcceptedRejected ==
    (last.stage \notin {"none", "open"} /\ EarlierSameFile \cap seen_fds # {})
        => (~last.plausible /\ ~last.merged /\ last.fd_num \notin seen_fds)

\* C4's case: the comparison was run against an accepted fd of the same file
\* object, and the entry was rejected by it.
C4_Witness ==
    /\ last.stage = "kcmp"
    /\ last.kcmp_same
    /\ EarlierSameFile \cap seen_fds # {}
    /\ ~last.plausible
    /\ return_map # EmptyMap

\* the stats read_*_fdinfo returned for slot s in this scan
StatsOf(s) == {p.stats : p \in {q \in parsed : q.slot = s}}

\* C5: the entry of every slot holds, field by field, the maximum over the fds
\* read for that slot, whatever the order they were enumerated in; the NPU scan
\* combines usage and mem the same way.
C5_PerFieldMaximum ==
    /\ DOMAIN return_map = {p.slot : p \in parsed}
    /\ \A s \in DOMAIN return_map :
         IF scan = "gpu"
         THEN /\ return_map[s].gfx = MaxOf({x.gfx : x \in StatsOf(s)})
              /\ return_map[s].enc = MaxOf({x.enc : x \in StatsOf(s)})
              /\ return_map[s].dec = MaxOf({x.dec : x \in StatsOf(s)})
              /\ return_map[s].mem = MaxOf({x.mem : x \in StatsOf(s)})
         ELSE /\ return_map[s].usage = MaxOf({x.usage : x \in StatsOf(s)})
              /\ return_map[s].mem = MaxOf({x.mem : x \in StatsOf(s)})

\* C5's case: two fds of one slot were read, and the slot's entry is neither of
\* the two (its fields come from both).
C5_Witness ==
    /\ scanpc = "done"
    /\ scan = "gpu"
    /\ Cardinality(StatsOf(SlotA)) = 2
    /\ return_map[SlotA] \notin StatsOf(SlotA)
    /\ return_map[SlotA].gfx = 170

\* the fds accepted before the last entry that are the same file object as it
AcceptedSameFile == EarlierSameFile \cap seen_fds

-----------------------------------------------------------------------------
(* Claims about the NVIDIA caches under concurrent callers, checked under
   SpecNvidia *)

\* C2: a lookup that returned Ok combined utilization samples and memory records
\* that one and the same refresh put into the two caches.
C2_LookupSeesOneRefresh ==
    IsOk(lk.result) => lk.stats_src = lk.infos_src

InPassAfterRefresh(t) ==
    tl[t].entry = "all_process_data" /\ pc[t] \in {"glob", "read_stats", "read_infos"}

\* C3: while an all_process_data pass is in its per-process part it has run the
\* refresh exactly once and refilled both caches; every lookup of the pass finds
\* the slot in both caches and reads what its own refill or a later one put there.
C3_RefreshCompleteBeforeLookups ==
    /\ \A t \in Threads :
         InPassAfterRefresh(t) =>
             /\ tl[t].refreshes = 1
             /\ tl[t].my_stats_gen \in 1..stats_gen
             /\ tl[t].my_infos_gen \in 1..infos_gen
    /\ lk.entry = "all_process_data" =>
             /\ IsOk(lk.result)
             /\ lk.my_stats_gen >= 1 /\ lk.stats_gen >= lk.my_stats_gen
             /\ lk.my_infos_gen >= 1 /\ lk.infos_gen >= lk.my_infos_gen

\* C3's case: a lookup of a pass returned, having read the samples of the pass's
\* own refill and the records of a later refill by another thread.
C3_Witness ==
    /\ lk.entry = "all_process_data"
    /\ IsOk(lk.result)
    /\ lk.stats_gen = lk.my_stats_gen
    /\ lk.infos_gen > lk.my_infos_gen

-----------------------------------------------------------------------------
(* Claims about the lookups, checked under SpecLookup *)

RECURSIVE SetSum(_, _)
\* the sum of f over the set S of indices
SetSum(S, f) ==
    IF S = {} THEN 0
    ELSE LET x == CHOOSE y \in S : TRUE IN f[x] + SetSum(S \ {x}, f)

\* the indices of the entries of list that belong to pid
Matching(list, pid) == {i \in DOMAIN list : list[i].pid = pid}

\* C6: a lookup that returned Ok gives gfx, enc and dec as the sums of sm_util,
\* enc_util and dec_util over the slot's cached samples of the pid, and mem as the
\* sum of the used bytes over the slot's cached records of the pid, Unavailable
\* counting 0; entries of other pids add nothing.
C6_SumsOverMatchingPid ==
    IsOk(lk.result) =>
        LET ms == Matching(lk.samples, lk.pid)
            mi == Matching(lk.infos, lk.pid)
        IN /\ lk.result.val.gfx = SetSum(ms, [i \in ms |-> lk.samples[i].sm_util])
           /\ lk.result.val.enc = SetSum(ms, [i \in ms |-> lk.samples[i].enc_util])
           /\ lk.result.val.dec = SetSum(ms, [i \in ms |-> lk.samples[i].dec_util])
           /\ lk.result.val.mem =
                  SetSum(mi, [i \in mi |->
                      IF lk.infos[i].used_gpu_memory.tag = "Used"
                      THEN lk.infos[i].used_gpu_memory.bytes ELSE 0])

\* C6's case: two samples (sm_util 10 and 15) and three records (4096 bytes,
\* Unavailable, 512 bytes) of pid 10 were summed, next to entries of pid 20.
C6_Witness ==
    /\ IsOk(lk.result)
    /\ lk.pid = 10
    /\ Matching(lk.samples, 20) # {}
    /\ Matching(lk.infos, 20) # {}
    /\ lk.result.val.gfx = 25
    /\ lk.result.val.mem = 4608

-----------------------------------------------------------------------------
(* C7: failed snapshots in a collection pass (Spec) *)

RECURSIVE SnapshotsOf(_, _, _)
\* the snapshots of the listed processes whose construction succeeds, in the
\* order of the listing
SnapshotsOf(entries, cpus, users) ==
    IF entries = << >> THEN << >>
    ELSE LET data == try_from_path(Head(entries).p, cpus, users)
         IN (IF IsOk(data) THEN <<data.val>> ELSE << >>)
            \o SnapshotsOf(Tail(entries), cpus, users)

\* C7: in all_process_data a process whose snapshot construction fails (its
\* directory vanished after the listing, or a required field is malformed) is
\* omitted and does not end the pass: during the loop and when the pass has
\* returned Ok, process_data holds exactly one snapshot for each listed process
\* whose construction succeeded, in enumeration order, and a listed process failed
\* exactly when try_from_path returns Err for it.
C7_FailedSnapshotsOmitted ==
    passpc \in {"glob", "returned"} =>
        /\ process_data = SnapshotsOf(listed, NUM_CPUS, USERS_CACHE)
        /\ Len(process_data) = Cardinality({i \in DOMAIN listed : listed[i].ok})
        /\ \A i \in DOMAIN listed :
             listed[i].ok = IsOk(try_from_path(listed[i].p, NUM_CPUS, USERS_CACHE))

\* a returned pass that listed a process that vanished before stat was read
\* between two whose snapshots were built, and a third entry with a truncated stat
C7_Witness ==
    /\ passpc = "returned"
    /\ Len(listed) = MaxListed
    /\ listed[1].ok
    /\ ~listed[2].ok /\ listed[2].p.gone = "stat"
    /\ listed[Len(listed)].ok
    /\ Len(process_data) = Len(listed) - 1
    /\ process_data[1].pid = listed[1].p.pid
    /\ process_data[Len(process_data)].pid = listed[Len(listed)].p.pid

-----------------------------------------------------------------------------
(* C8: the Uid line of status (SpecSnapshot) *)

\* the snapshot of p would be built if its Uid line were "Uid: 0": nothing but
\* the Uid line can make the construction fail
BuiltButForUid(p) ==
    IsOk(try_from_path([p EXCEPT !.uid = UidDigits(<<0>>)], NUM_CPUS, USERS_CACHE))

\* the Uid line has no number (no line, or no digit after "Uid:")
UidMissing(line) == line.kind \in {"absent", "nodigits"}

\* the Uid line has a number that does not fit a u32
UidUnparsable(line) == line.kind = "digits" /\ ~IsOk(ParseU32(line.digits))

\* C8 as stated: a Uid line that is absent or whose number is unparsable yields
\* UID 0 and is never an error; the snapshot is built with the user of UID 0
\* ("root" when unmapped).
C8_UidLineNeverAnError ==
    (tried.called /\ BuiltButForUid(tried.p)
     /\ (UidMissing(tried.p.uid) \/ UidUnparsable(tried.p.uid)))
        => (IsOk(tried.out) /\ tried.out.val.user = UserOf(USERS_CACHE, <<0>>))

\* C8 amended: a status text without a Uid number yields UID 0 and the snapshot
\* is built with the user of UID 0 ("root" when unmapped); a Uid number that does
\* not parse as a u32 makes the construction fail; any other Uid number is
\* resolved in the user table, with "root" for an unmapped one.
C8_UidDefaultsOnlyWhenMissing ==
    (tried.called /\ BuiltButForUid(tried.p)) =>
        IF UidMissing(tried.p.uid)
        THEN IsOk(tried.out) /\ tried.out.val.user = UserOf(USERS_CACHE, <<0>>)
        ELSE IF UidUnparsable(tried.p.uid)
        THEN tried.out = Err
        ELSE /\ IsOk(tried.out)
             /\ tried.out.val.user
                  = UserOf(USERS_CACHE, StripZeros(tried.p.uid.digits))

\* a snapshot built from a status text without a Uid line, UID 0 unmapped
C8_Witness ==
    /\ tried.called
    /\ tried.p.uid = NoUidLine
    /\ <<0>> \notin DOMAIN USERS_CACHE
    /\ IsOk(tried.out)
    /\ tried.out.val.user = "root"

-----------------------------------------------------------------------------
(* C9: the affinity vector (SpecSnapshot) *)

\* the hexadecimal digits of the whole mask: the text without the commas between
\* its groups
MaskDigits(line) ==
    IF line.kind = "absent" THEN << >>
    ELSE LET keep == {i \in DOMAIN line.text : IsHexChar(line.text[i])}
         IN [k \in 1..Cardinality(keep) |->
                line.text[CHOOSE i \in keep : Cardinality({j \in keep : j < i}) = k - 1]]

\* bit k of the mask, counting from the least-significant bit of the last hex
\* digit; FALSE beyond the mask
MaskBit(line, k) ==
    LET digits == MaskDigits(line)
        at == Len(digits) - (k \div 4)
    IN at >= 1 /\ BitOf(ToDigit16(digits[at]), k % 4)

\* C9 as stated: the affinity vector of a returned snapshot has length NUM_CPUS
\* whatever the length of the Cpus_allowed mask (all-false when it is absent), and
\* element i is bit i of the mask.
C9_AffinityHasCpuCountLength ==
    (tried.called /\ IsOk(tried.out)) =>
        /\ Len(tried.out.val.affinity) = NUM_CPUS
        /\ \A i \in 1..Len(tried.out.val.affinity) :
             tried.out.val.affinity[i] = MaskBit(tried.p.mask, i - 1)

-----------------------------------------------------------------------------
(* C10: the scope branch of the cgroup classifier (SpecCgroup) *)

\* the final path segment of a line
FinalPathSegment(line) == Split(line, "/")[Len(Split(line, "/"))]

\* the second-to-last '-' segment of the final path segment, unescaped
NameOfFinalSegment(line) ==
    LET segments == Split(FinalPathSegment(line), "-")
    IN IF Len(segments) > 1 THEN Some(UnescapeOrSame(segments[Len(segments) - 1]))
       ELSE None

\* C10 as stated: for a 0:: line whose final path segment ends in .scope,
\* sanitize_cgroup splits that final path segment on '-' and returns its
\* second-to-last segment, unescaped, when there is more than one segment and None
\* otherwise; the result has no text of earlier path segments or of the 0:: prefix.
C10_ScopeNameFromFinalSegment ==
    (cgpc = "done" /\ CgroupsV2Line(cgroup_file).tag = "Some"
     /\ EndsWith(CgroupsV2Line(cgroup_file).val, ScopeSuffix))
        => /\ cgroup = NameOfFinalSegment(CgroupsV2Line(cgroup_file).val)
           /\ cgroup.tag = "Some" => ~Contains(cgroup.val, <<"/">>)

-----------------------------------------------------------------------------
(* Claims about the GPU map of a snapshot, checked under SpecMerge *)

\* the map of the fdinfo scan as gpu_usage_stats uses it
FdinfoStats == UnwrapOr(OtherGpuUsageStats, EmptyMap)

\* the map nvidia_gpu_stats_all gives for the pid of the snapshot
NvidiaStats == nvidia_gpu_stats_all(gpu_pid, NVIDIA_PROCESSES_STATS, NVIDIA_PROCESS_INFOS)

\* C12: a slot reported both by the fdinfo scan and by the NVIDIA cache has
\* exactly the NVIDIA-derived entry in the final map (nvidia flag set, no field
\* of the fdinfo entry); a slot reported by one source only keeps that source's
\* entry unchanged, and the map has no other slot.
C12_NvidiaEntryWins ==
    gpupc = "done" =>
        /\ DOMAIN gpu_usage = DOMAIN FdinfoStats \cup DOMAIN NvidiaStats
        /\ \A s \in DOMAIN gpu_usage :
             IF s \in DOMAIN NvidiaStats
             THEN gpu_usage[s] = NvidiaStats[s] /\ gpu_usage[s].nvidia
             ELSE gpu_usage[s] = FdinfoStats[s] /\ ~gpu_usage[s].nvidia

\* C12's case: the scan and the cache both report SlotN1 with different numbers,
\* the scan alone reports SlotA and the cache alone SlotN2
C12_Witness ==
    /\ gpupc = "done"
    /\ scanpc = "done"
    /\ DOMAIN return_map = {SlotA, SlotN1}
    /\ DOMAIN NvidiaStats = {SlotN1, SlotN2}
    /\ gpu_usage[SlotN1].nvidia
    /\ gpu_usage[SlotN1].gfx = 25
    /\ return_map[SlotN1].gfx = 170
    /\ gpu_usage[SlotA] = return_map[SlotA]

-----------------------------------------------------------------------------
(* Claims about the parsers of an fdinfo text, checked under SpecParse *)

\* read_gpu_fdinfo returned stats for a text whose driver is i915
IntelParsed ==
    /\ parsepc = "done"
    /\ parse_out.parser = "gpu"
    /\ IsOk(parse_out.result)
    /\ content.driver = "i915"

-----------------------------------------------------------------------------
(* Claims about the numbers of the NVIDIA entries, checked under SpecLookup *)

\* every sample of the list is a percentage
SamplesArePercentages(samples) ==
    \A i \in DOMAIN samples :
        /\ samples[i].sm_util \in 0..100
        /\ samples[i].enc_util \in 0..100
        /\ samples[i].dec_util \in 0..100

\* C14: the entry a lookup returns has the nvidia flag set and, when every sample
\* of the cache list it read is within 0 to 100, its gfx, enc and dec are within
\* 0 to 100.
C14_NvidiaPercentages ==
    (IsOk(lk.result) /\ SamplesArePercentages(lk.samples)) =>
        /\ lk.result.val.nvidia
        /\ lk.result.val.gfx \in 0..100
        /\ lk.result.val.enc \in 0..100
        /\ lk.result.val.dec \in 0..100

-----------------------------------------------------------------------------
(* C15: the niceness of a snapshot (SpecSnapshot) *)

\* the niceness token of the stat file of p, when stat is long enough to have one
NiceToken(p) == p.stat[STAT_NICE + 1]
HasNiceToken(p) == Len(p.stat) >= STAT_NICE + 1 /\ NiceToken(p).num

\* the snapshot of p would be built if its niceness were 0
BuiltButForNice(p) ==
    /\ HasNiceToken(p)
    /\ IsOk(try_from_path([p EXCEPT !.stat[STAT_NICE + 1] = Num(0)], NUM_CPUS,
                          USERS_CACHE))

\* C15: Niceness construction succeeds and gives back n exactly when
\* -20 <= n <= 19; a stat file whose niceness is outside that range makes the
\* snapshot construction fail, one whose niceness is inside does not, and every
\* returned snapshot has the niceness of its stat file, within -20..19.
C15_NicenessRange ==
    /\ \A n \in I8 :
         IF n >= 0 - 20 /\ n <= 19 THEN Niceness(n) = Ok(n) ELSE Niceness(n) = Err
    /\ tried.called =>
         /\ IsOk(tried.out) =>
              /\ tried.out.val.niceness \in (0 - 20)..19
              /\ HasNiceToken(tried.p)
              /\ tried.out.val.niceness = NiceToken(tried.p).val
         /\ (HasNiceToken(tried.p) /\ NiceToken(tried.p).val \notin (0 - 20)..19)
               => tried.out = Err
         /\ (BuiltButForNice(tried.p) /\ NiceToken(tried.p).val \in (0 - 20)..19)
               => IsOk(tried.out)

\* C15's case: a process whose stat file has niceness 20 and nothing else wrong
C15_Witness ==
    /\ tried.called
    /\ BuiltButForNice(tried.p)
    /\ NiceToken(tried.p).val = 20
    /\ tried.out = Err

-----------------------------------------------------------------------------
(* C16: errors of single fdinfo entries (SpecScan) *)

\* the slots read_*_fdinfo returned stats for in this scan
SlotsParsed == {p.slot : p \in parsed}

\* the map the snapshot reports for this scan: unwrap_or_default of its result
ReportedMap == UnwrapOr(OtherGpuUsageStats, EmptyMap)

\* the entry enumerated last ended in an error: its open or stat failed, or its
\* content could not be read or parsed
LastEntryErred == last.stage # "none" /\ last.plausible /\ ~last.merged

\* C16 as stated: whatever error the entries of the fdinfo directory met, the
\* scan does not fail the snapshot, and the map it reports has the stats gathered
\* from the other fds: an entry for every slot that was read.
C16_EntryErrorsNeverDiscard ==
    scanpc \in {"done", "failed"} => DOMAIN ReportedMap = SlotsParsed

\* C16 as amended: an entry that cannot be opened, stat'ed, read or parsed
\* leaves the stats gathered so far in place, and a scan that ends normally
\* reports them all; a scan whose directory enumeration yields an error reports
\* the empty map.
C16_LocalUnlessEnumerationFails ==
    /\ scanpc \in {"scanning", "done"} =>
         /\ DOMAIN return_map = SlotsParsed
         /\ \A p \in parsed :
              IF scan = "gpu"
              THEN /\ return_map[p.slot].gfx >= p.stats.gfx
                   /\ return_map[p.slot].enc >= p.stats.enc
                   /\ return_map[p.slot].dec >= p.stats.dec
                   /\ return_map[p.slot].mem >= p.stats.mem
              ELSE /\ return_map[p.slot].usage >= p.stats.usage
                   /\ return_map[p.slot].mem >= p.stats.mem
    /\ scanpc = "done" => ReportedMap = return_map
    /\ scanpc = "failed" => ReportedMap = EmptyMap

\* C16's case: a scan that read stats from one fd, then met an entry that
\* erred, and ended normally with the stats in its map
C16_Witness ==
    /\ scanpc = "done"
    /\ LastEntryErred
    /\ parsed # {}
    /\ DOMAIN ReportedMap = SlotsParsed

-----------------------------------------------------------------------------
(* C17: the keys of the NVIDIA caches and the NVIDIA entries of a snapshot
   (SpecLookup) *)

\* the entry nvidia_gpu_stats builds for a process without samples and records
ZeroNvidiaEntry == NvidiaGpuStats(<<0, 0, 0>>, 0)

\* C17: once a refresh has refilled a cache, the cache holds exactly one key per
\* managed device whenever it can be read (an empty list where the query failed);
\* before, it is empty. A lookup returns an entry exactly when both caches had
\* been refilled when it read them, so for every managed device after a completed
\* refresh and for none before the first; the entry has the nvidia flag set and is
\* all-zero when the process has no sample and no record on the device. The map a
\* pass builds for a process has an entry for every managed device.
C17_OneKeyPerDevice ==
    /\ IF stats_gen = 0 THEN stats_lock = "free" => NVIDIA_PROCESSES_STATS = EmptyMap
       ELSE stats_lock = "free" => DOMAIN NVIDIA_PROCESSES_STATS = DeviceSlots
    /\ IF infos_gen = 0 THEN infos_lock = "free" => NVIDIA_PROCESS_INFOS = EmptyMap
       ELSE infos_lock = "free" => DOMAIN NVIDIA_PROCESS_INFOS = DeviceSlots
    /\ lk.entry # "none" =>
         /\ lk.slot \in DeviceSlots
         /\ IsOk(lk.result) <=> (lk.stats_gen >= 1 /\ lk.infos_gen >= 1)
         /\ IsOk(lk.result) =>
              /\ lk.result.val.nvidia
              /\ (FilterPid(lk.samples, lk.pid) = << >>
                  /\ FilterPid(lk.infos, lk.pid) = << >>) => lk.result.val = ZeroNvidiaEntry
    /\ \A t \in Threads :
         (pc[t] = "glob" /\ tl[t].procs >= 1) =>
             /\ DOMAIN tl[t].ret = DeviceSlots
             /\ \A d \in DeviceSlots : tl[t].ret[d].nvidia

\* C17's case: after a refresh in which the queries of a device gave nothing, a
\* snapshot's lookup of that device returns the all-zero NVIDIA entry
C17_Witness ==
    /\ lk.entry = "try_from_path"
    /\ lk.infos_gen >= 1
    /\ lk.slot = SlotN2
    /\ lk.samples = << >> /\ lk.infos = << >>
    /\ NVIDIA_PROCESSES_STATS[SlotN1] # << >>
    /\ lk.result = Ok(ZeroNvidiaEntry)

====
